---- MODULE Spec2Model ----
(***************************************************************************)
(* Model of mod_h2/h2_task.c: one stream task, its owner/worker thread     *)
(* (h2_task_create, h2_task_do, h2_task_destroy), the pipeline calling the *)
(* two filter bridges from inside ap_process_connection, and a second      *)
(* thread calling h2_task_abort.  Steps of h2_task_abort, h2_task_destroy  *)
(* and of the bridge filters are the statements of the C code, so that the *)
(* unsynchronised accesses to task->input / task->output interleave.       *)
(***************************************************************************)
EXTENDS Integers, Sequences, FiniteSets, TLC

\* ---- bounds of the model ----
MaxCalls    == 2   \* bridge calls the pipeline makes in one run
MaxAborts   == 2   \* h2_task_abort calls
MaxDestroys == 2   \* h2_task_destroy calls

\* ---- input sets ----
SessionIds == {1, 2}
StreamIds  == {3, 4}
RefBase    == 1    \* references the multiplexer holds before h2_task_create

NULL == "NULL"
FailStatus == {"APR_ENOMEM", "APR_EGENERAL"}

VARIABLES
    sess, sid,              \* arguments of h2_task_create
    wpc,                    \* position of the owner/worker thread
    apc,                    \* position of the aborting thread
    crashed,                \* the process died on an invalid access
    taskRet,                \* h2_task_create returned a task
    failKind,               \* which step of h2_task_create failed
    t_session_id, t_stream_id, t_aborted, t_running,
    t_mplx, t_pool, t_c, t_socket, t_input, t_output,   \* struct h2_task
    poolState, poolDestroys,                            \* the task's pool
    inObj, outObj,          \* the h2_task_input / h2_task_output objects
    inDestroys, outDestroys,
    outStarted, outBytes,   \* output bridge state, writes handed to the mplx
    refCount, refCalls, relCalls, resets,               \* the h2_mplx
    calls, seen, res,       \* pipeline: bridge calls made, local of the
                            \* running bridge call, last bridge result
    doRet,                  \* value h2_task_do returned
    do_status,              \* the local `status` of h2_task_do
    procCalls,              \* invocations of ap_process_connection
    setLog,                 \* arguments of the last two h2_task_set_running calls
    pipeReturned,           \* ap_process_connection has returned
    abortCalls, abortReturns, destroyCalls, destroyReturns,
    callAfterAbort,         \* the current bridge call began after an abort returned
    usedDead,               \* a bridge call went into a NULL/destroyed bridge
    hsDead,                 \* h2_task_output_has_started got a NULL/destroyed bridge
    uaf,                    \* the task was accessed after its pool was destroyed
    nullTaskRead,           \* a field of a NULL task was read
    abortWhileBlocked,      \* abort tore the input bridge down under a blocked read
    wokeRes                 \* what that blocked read then returned

taskVars == <<t_session_id, t_stream_id, t_aborted, t_running,
              t_mplx, t_pool, t_c, t_socket, t_input, t_output>>
poolVars == <<poolState, poolDestroys>>
inVars   == <<inObj, inDestroys>>
outVars  == <<outObj, outDestroys, outStarted, outBytes>>
mplxVars == <<refCount, refCalls, relCalls, resets>>
pipeVars == <<calls, seen, res, doRet, pipeReturned, callAfterAbort>>
doVars   == <<do_status, procCalls>>
cntVars  == <<abortCalls, abortReturns, destroyCalls, destroyReturns>>
badVars  == <<usedDead, hsDead, uaf, nullTaskRead, abortWhileBlocked, wokeRes>>

vars == <<sess, sid, wpc, apc, crashed, taskRet, failKind, taskVars, poolVars,
          inVars, outVars, mplxVars, pipeVars, doVars, setLog, cntVars, badVars>>

\* struct h2_task after apr_pcalloc: every field zero
Init ==
    /\ sess \in SessionIds /\ sid \in StreamIds
    /\ wpc = "start" /\ apc = "idle" /\ crashed = FALSE
    /\ taskRet = FALSE /\ failKind = "none"
    /\ t_session_id = 0 /\ t_stream_id = 0 /\ t_aborted = 0 /\ t_running = 0
    /\ t_mplx = NULL /\ t_pool = NULL /\ t_c = NULL /\ t_socket = NULL
    /\ t_input = NULL /\ t_output = NULL
    /\ poolState = "none" /\ poolDestroys = 0
    /\ inObj = "none" /\ outObj = "none" /\ inDestroys = 0 /\ outDestroys = 0
    /\ outStarted = FALSE /\ outBytes = 0
    /\ refCount = RefBase /\ refCalls = 0 /\ relCalls = 0 /\ resets = <<>>
    /\ calls = 0 /\ seen = NULL /\ res = "none" /\ doRet = "none"
    /\ pipeReturned = FALSE
    /\ do_status = "none" /\ procCalls = 0 /\ setLog = <<>>
    /\ abortCalls = 0 /\ abortReturns = 0 /\ destroyCalls = 0 /\ destroyReturns = 0
    /\ callAfterAbort = FALSE
    /\ usedDead = FALSE /\ hsDead = FALSE /\ uaf = FALSE
    /\ nullTaskRead = FALSE /\ abortWhileBlocked = FALSE /\ wokeRes = "none"

\* h2_mplx_out_reset(mplx, stream_id, status): the multiplexer records the call
OutReset(rs, id, status) == Append(rs, <<id, status>>)

\* ------------------------------------------------------------------------
\* h2_task_create
\* ------------------------------------------------------------------------

\* apr_pool_create_ex fails: reset with its status, return NULL
CreatePoolFail ==
    /\ ~crashed /\ wpc = "start"
    /\ \E st \in FailStatus : resets' = OutReset(resets, sid, st)
    /\ wpc' = "nocreate" /\ failKind' = "pool"
    /\ UNCHANGED <<sess, sid, doVars, setLog, apc, crashed, taskRet, taskVars, poolVars, inVars,
                   outVars, refCount, refCalls, relCalls, pipeVars, cntVars, badVars>>

\* apr_pcalloc returns NULL: the reset's stream id is read through the NULL
\* task (task->stream_id), which either kills the process or yields some int
CreateAllocFail ==
    /\ ~crashed /\ wpc = "start"
    /\ poolState' = "live"
    /\ nullTaskRead' = TRUE
    /\ failKind' = "alloc"
    /\ \/ /\ crashed' = TRUE
          /\ UNCHANGED <<wpc, resets>>
       \/ /\ \E id \in StreamIds \cup {0} :
                resets' = OutReset(resets, id, "APR_ENOMEM")
          /\ wpc' = "nocreate"
          /\ UNCHANGED crashed
    /\ UNCHANGED <<sess, sid, doVars, setLog, apc, taskRet, taskVars, poolDestroys, inVars,
                   outVars, refCount, refCalls, relCalls, pipeVars, cntVars,
                   usedDead, hsDead, uaf, abortWhileBlocked, wokeRes>>

\* the multiplexer reference taken at line 178
CreateRef(n) == n + 1

\* variant: the connection failure returns NULL without telling the multiplexer
CreateConnFail_noreset ==
    /\ ~crashed /\ wpc = "start"
    /\ poolState' = "live"
    /\ t_stream_id' = sid /\ t_session_id' = sess /\ t_pool' = "pool"
    /\ refCount' = CreateRef(refCount) /\ refCalls' = refCalls + 1
    /\ t_mplx' = "mplx"
    /\ t_socket' = "master_sock" /\ t_c' = NULL
    /\ wpc' = "nocreate" /\ failKind' = "conn"
    /\ UNCHANGED <<sess, sid, doVars, setLog, apc, crashed, taskRet, t_aborted, t_running,
                   t_input, t_output, poolDestroys, inVars, outVars, relCalls,
                   resets, pipeVars, cntVars, badVars>>

\* h2_conn_create returns APR_EGENERAL (ap_run_create_connection gave NULL)
CreateConnFail ==
    /\ ~crashed /\ wpc = "start"
    /\ poolState' = "live"
    /\ t_stream_id' = sid /\ t_session_id' = sess /\ t_pool' = "pool"
    /\ refCount' = CreateRef(refCount) /\ refCalls' = refCalls + 1
    /\ t_mplx' = "mplx"
    /\ t_socket' = "master_sock" /\ t_c' = NULL
    /\ resets' = OutReset(resets, sid, "APR_EGENERAL")
    /\ wpc' = "nocreate" /\ failKind' = "conn"
    /\ UNCHANGED <<sess, sid, doVars, setLog, apc, crashed, taskRet, t_aborted, t_running,
                   t_input, t_output, poolDestroys, inVars, outVars, relCalls,
                   pipeVars, cntVars, badVars>>

\* every step succeeds: the task is returned with both bridges created
CreateOk ==
    /\ ~crashed /\ wpc = "start"
    /\ poolState' = "live"
    /\ t_stream_id' = sid /\ t_session_id' = sess /\ t_pool' = "pool"
    /\ refCount' = CreateRef(refCount) /\ refCalls' = refCalls + 1
    /\ t_mplx' = "mplx"
    /\ t_socket' = "master_sock" /\ t_c' = "conn"
    /\ t_input' = "in" /\ inObj' = "live"
    /\ t_output' = "out" /\ outObj' = "live"
    /\ taskRet' = TRUE /\ wpc' = "created"
    /\ UNCHANGED <<sess, sid, doVars, setLog, apc, crashed, failKind, t_aborted, t_running,
                   poolDestroys, inDestroys, outDestroys, outStarted, outBytes,
                   relCalls, resets, pipeVars, cntVars, badVars>>

\* ------------------------------------------------------------------------
\* h2_task_do
\* ------------------------------------------------------------------------

\* variant: the socket failure is reported and the pipeline is run all the same
DoSocketFail_runs ==
    /\ ~crashed /\ wpc = "created"
    /\ \E st \in FailStatus :
          /\ do_status' = st
          /\ resets' = OutReset(resets, t_stream_id, st)
          /\ doRet' = st
    /\ procCalls' = procCalls + 1
    /\ wpc' = "pipeline"
    /\ UNCHANGED <<sess, sid, setLog, apc, crashed, taskRet, failKind, taskVars, poolVars,
                   inVars, outVars, refCount, refCalls, relCalls,
                   calls, seen, res, pipeReturned, callAfterAbort,
                   cntVars, badVars>>

\* apr_socket_create fails: reset with that status and return it
DoSocketFail ==
    /\ ~crashed /\ wpc = "created"
    /\ \E st \in FailStatus :
          /\ do_status' = st
          /\ resets' = OutReset(resets, t_stream_id, st)
          /\ doRet' = st
    /\ wpc' = "do_done"
    /\ UNCHANGED <<sess, sid, procCalls, setLog, apc, crashed, taskRet, failKind, taskVars, poolVars,
                   inVars, outVars, refCount, refCalls, relCalls,
                   calls, seen, res, pipeReturned, callAfterAbort,
                   cntVars, badVars>>

\* variant: h2_task_do returns without running the pipeline
ProcessConnection_skipped(n) == n

\* ap_process_connection(task->c, task->socket) is invoked
ProcessConnection(n) == n + 1

\* apr_socket_create succeeds; ap_set_module_config; ap_process_connection
\* is entered
DoSocketOk ==
    /\ ~crashed /\ wpc = "created"
    /\ t_socket' = "sock"
    /\ do_status' = "APR_SUCCESS"
    /\ procCalls' = ProcessConnection(procCalls)
    /\ wpc' = "pipeline"
    /\ UNCHANGED <<sess, sid, setLog, apc, crashed, taskRet, failKind,
                   t_session_id, t_stream_id, t_aborted, t_running, t_mplx,
                   t_pool, t_c, t_input, t_output, poolVars, inVars, outVars,
                   mplxVars, pipeVars, cntVars, badVars>>

\* the pipeline reads: it calls the input filter of the connection
PipeInput ==
    /\ ~crashed /\ wpc = "pipeline" /\ calls < MaxCalls
    /\ calls' = calls + 1
    /\ res' = "pending"
    /\ callAfterAbort' = (abortReturns > 0)
    /\ wpc' = "in_check"
    /\ UNCHANGED <<sess, sid, doVars, setLog, apc, crashed, taskRet, failKind, taskVars, poolVars,
                   inVars, outVars, mplxVars, seen, doRet, pipeReturned,
                   cntVars, badVars>>

\* the pipeline writes: it calls the output filter of the connection
PipeOutput ==
    /\ ~crashed /\ wpc = "pipeline" /\ calls < MaxCalls
    /\ calls' = calls + 1
    /\ res' = "pending"
    /\ callAfterAbort' = (abortReturns > 0)
    /\ wpc' = "out_check"
    /\ UNCHANGED <<sess, sid, doVars, setLog, apc, crashed, taskRet, failKind, taskVars, poolVars,
                   inVars, outVars, mplxVars, seen, doRet, pipeReturned,
                   cntVars, badVars>>

\* what a filter returns when its bridge handle is NULL
NoBridgeStatus == "APR_ECONNABORTED"

\* h2_filter_stream_input: if (!task->input) return APR_ECONNABORTED;
InCheck ==
    /\ ~crashed /\ wpc = "in_check"
    /\ seen' = t_input
    /\ IF t_input = NULL
          THEN res' = NoBridgeStatus /\ wpc' = "pipeline"
          ELSE res' = res /\ wpc' = "in_call"
    /\ UNCHANGED <<sess, sid, doVars, setLog, apc, crashed, taskRet, failKind, taskVars, poolVars,
                   inVars, outVars, mplxVars, calls, doRet, pipeReturned,
                   callAfterAbort, cntVars, badVars>>

\* h2_filter_stream_input: return h2_task_input_read(task->input, ...).
\* The argument is the value the check saw or a fresh read of the field.
\* A live bridge answers at once or blocks for data; a NULL or destroyed
\* one is an invalid access: the process dies or some status comes back.
InCall ==
    /\ ~crashed /\ wpc = "in_call"
    /\ \E arg \in {seen, t_input} :
          IF arg # NULL /\ inObj = "live"
          THEN /\ \/ res' = "APR_SUCCESS" /\ wpc' = "pipeline"
                  \/ res' = res /\ wpc' = "in_blocked"
               /\ UNCHANGED <<crashed, usedDead>>
          ELSE /\ usedDead' = TRUE
               /\ \/ crashed' = TRUE /\ UNCHANGED <<res, wpc>>
                  \/ /\ res' \in {"APR_SUCCESS", "APR_ECONNABORTED"}
                     /\ wpc' = "pipeline"
                     /\ UNCHANGED crashed
    /\ UNCHANGED <<sess, sid, doVars, setLog, apc, taskRet, failKind, taskVars, poolVars,
                   inVars, outVars, mplxVars, calls, seen, doRet, pipeReturned,
                   callAfterAbort, cntVars, hsDead, uaf, nullTaskRead,
                   abortWhileBlocked, wokeRes>>

\* result of a blocked h2_task_input_read when it wakes up: data from the
\* multiplexer, or the connection-aborted error once the bridge is torn down
WakeStatus(obj) == IF obj = "live" THEN "APR_SUCCESS" ELSE "APR_ECONNABORTED"

InWake ==
    /\ ~crashed /\ wpc = "in_blocked"
    /\ res' = WakeStatus(inObj)
    /\ wokeRes' = IF abortWhileBlocked /\ wokeRes = "none"
                  THEN WakeStatus(inObj) ELSE wokeRes
    /\ wpc' = "pipeline"
    /\ UNCHANGED <<sess, sid, doVars, setLog, apc, crashed, taskRet, failKind, taskVars, poolVars,
                   inVars, outVars, mplxVars, calls, seen, doRet, pipeReturned,
                   callAfterAbort, cntVars, usedDead, hsDead, uaf,
                   nullTaskRead, abortWhileBlocked>>

\* h2_filter_stream_output: if (!task->output) return APR_ECONNABORTED;
OutCheck ==
    /\ ~crashed /\ wpc = "out_check"
    /\ seen' = t_output
    /\ IF t_output = NULL
          THEN res' = NoBridgeStatus /\ wpc' = "pipeline"
          ELSE res' = res /\ wpc' = "out_call"
    /\ UNCHANGED <<sess, sid, doVars, setLog, apc, crashed, taskRet, failKind, taskVars, poolVars,
                   inVars, outVars, mplxVars, calls, doRet, pipeReturned,
                   callAfterAbort, cntVars, badVars>>

\* h2_filter_stream_output: return h2_task_output_write(task->output, ...).
\* A live bridge hands the data to the multiplexer and has then started.
OutCall ==
    /\ ~crashed /\ wpc = "out_call"
    /\ \E arg \in {seen, t_output} :
          IF arg # NULL /\ outObj = "live"
          THEN /\ outStarted' = TRUE /\ outBytes' = outBytes + 1
               /\ res' = "APR_SUCCESS" /\ wpc' = "pipeline"
               /\ UNCHANGED <<crashed, usedDead>>
          ELSE /\ usedDead' = TRUE
               /\ UNCHANGED <<outStarted, outBytes>>
               /\ \/ crashed' = TRUE /\ UNCHANGED <<res, wpc>>
                  \/ /\ res' \in {"APR_SUCCESS", "APR_ECONNABORTED"}
                     /\ wpc' = "pipeline"
                     /\ UNCHANGED crashed
    /\ UNCHANGED <<sess, sid, doVars, setLog, apc, taskRet, failKind, taskVars, poolVars,
                   inVars, outObj, outDestroys, mplxVars, calls, seen, doRet,
                   pipeReturned, callAfterAbort, cntVars, hsDead, uaf,
                   nullTaskRead, abortWhileBlocked, wokeRes>>

\* ap_process_connection returns
PipeReturn ==
    /\ ~crashed /\ wpc = "pipeline"
    /\ pipeReturned' = TRUE
    /\ wpc' = "has_started"
    /\ UNCHANGED <<sess, sid, doVars, setLog, apc, crashed, taskRet, failKind, taskVars, poolVars,
                   inVars, outVars, mplxVars, calls, seen, res, doRet,
                   callAfterAbort, cntVars, badVars>>

\* variant: the reset of a silent stream reports the connection as aborted
SilentStatus_aborted(status) == "APR_ECONNABORTED"

\* the status h2_task_do hands to the reset of a silent stream: the local
\* `status`, still holding the result of apr_socket_create
SilentStatus(status) == status

\* if (!h2_task_output_has_started(task->output)) h2_mplx_out_reset(...);
\* apr_socket_close; return APR_SUCCESS.  task->output is passed on as it
\* is: a NULL or destroyed bridge is an invalid access, the process dies or
\* either answer comes back.
DoHasStarted ==
    /\ ~crashed /\ wpc = "has_started"
    /\ IF t_output # NULL /\ outObj = "live"
       THEN /\ resets' = IF outStarted THEN resets
                         ELSE OutReset(resets, t_stream_id, SilentStatus(do_status))
            /\ wpc' = "do_done" /\ doRet' = "APR_SUCCESS"
            /\ UNCHANGED <<crashed, hsDead>>
       ELSE /\ hsDead' = TRUE
            /\ \/ crashed' = TRUE /\ UNCHANGED <<resets, wpc, doRet>>
               \/ /\ \E started \in BOOLEAN :
                       resets' = IF started THEN resets
                                 ELSE OutReset(resets, t_stream_id, SilentStatus(do_status))
                  /\ wpc' = "do_done" /\ doRet' = "APR_SUCCESS"
                  /\ UNCHANGED crashed
    /\ UNCHANGED <<sess, sid, doVars, setLog, apc, taskRet, failKind, taskVars, poolVars,
                   inVars, outVars, refCount, refCalls, relCalls, calls, seen,
                   res, pipeReturned, callAfterAbort, cntVars, usedDead, uaf,
                   nullTaskRead, abortWhileBlocked, wokeRes>>

\* ------------------------------------------------------------------------
\* h2_task_destroy (owner thread, after h2_task_do or instead of it)
\* ------------------------------------------------------------------------

\* ap_process_connection has been entered and has not returned
InPipeline == procCalls > 0 /\ ~pipeReturned

\* variant: the owner destroys the task whenever it decides to drop the stream
MayDestroy_anytime == wpc \in {"created", "pipeline", "do_done", "destroyed"}

\* when the owner calls h2_task_destroy: for a task that was never run or
\* once h2_task_do has returned (and, not excluded by the code, once more)
MayDestroy == wpc \in {"created", "do_done", "destroyed"}

\* entry of h2_task_destroy.  A call after the pool is gone reads the task
\* from freed memory: the process dies or the stale fields are read.
DestroyStart ==
    /\ ~crashed /\ MayDestroy
    /\ destroyCalls < MaxDestroys
    /\ destroyCalls' = destroyCalls + 1
    /\ IF poolState = "destroyed"
       THEN /\ uaf' = TRUE
            /\ \/ crashed' = TRUE /\ UNCHANGED wpc
               \/ wpc' = "d_in_check" /\ UNCHANGED crashed
       ELSE wpc' = "d_in_check" /\ UNCHANGED <<uaf, crashed>>
    /\ UNCHANGED <<sess, sid, doVars, setLog, apc, taskRet, failKind, taskVars, poolVars,
                   inVars, outVars, mplxVars, pipeVars, abortCalls,
                   abortReturns, destroyReturns, usedDead, hsDead,
                   nullTaskRead, abortWhileBlocked, wokeRes>>

\* if (task->input)
DestroyInCheck ==
    /\ ~crashed /\ wpc = "d_in_check"
    /\ wpc' = IF t_input # NULL THEN "d_in_destroy" ELSE "d_out_check"
    /\ UNCHANGED <<sess, sid, doVars, setLog, apc, crashed, taskRet, failKind, taskVars, poolVars,
                   inVars, outVars, mplxVars, pipeVars, cntVars, badVars>>

\* h2_task_input_destroy(task->input).  When the other thread has cleared
\* the field since the check, a fresh read passes NULL (the process dies)
\* and the checked value destroys the bridge again.
DestroyInDestroy ==
    /\ ~crashed /\ wpc = "d_in_destroy"
    /\ \/ /\ inObj' = "destroyed" /\ inDestroys' = inDestroys + 1
          /\ wpc' = "d_in_null"
          /\ UNCHANGED crashed
       \/ /\ t_input = NULL
          /\ crashed' = TRUE
          /\ UNCHANGED <<inVars, wpc>>
    /\ UNCHANGED <<sess, sid, doVars, setLog, apc, taskRet, failKind, taskVars, poolVars,
                   outVars, mplxVars, pipeVars, cntVars, badVars>>

\* the value h2_task_destroy leaves in task->input
DestroyedInput == NULL

\* task->input = NULL
DestroyInNull ==
    /\ ~crashed /\ wpc = "d_in_null"
    /\ t_input' = DestroyedInput
    /\ wpc' = "d_out_check"
    /\ UNCHANGED <<sess, sid, doVars, setLog, apc, crashed, taskRet, failKind,
                   t_session_id, t_stream_id, t_aborted, t_running, t_mplx,
                   t_pool, t_c, t_socket, t_output, poolVars,
                   inVars, outVars, mplxVars, pipeVars, cntVars, badVars>>

\* if (task->output)
DestroyOutCheck ==
    /\ ~crashed /\ wpc = "d_out_check"
    /\ wpc' = IF t_output # NULL THEN "d_out_destroy" ELSE "d_mplx"
    /\ UNCHANGED <<sess, sid, doVars, setLog, apc, crashed, taskRet, failKind, taskVars, poolVars,
                   inVars, outVars, mplxVars, pipeVars, cntVars, badVars>>

\* h2_task_output_destroy(task->output)
DestroyOutDestroy ==
    /\ ~crashed /\ wpc = "d_out_destroy"
    /\ \/ /\ outObj' = "destroyed" /\ outDestroys' = outDestroys + 1
          /\ wpc' = "d_out_null"
          /\ UNCHANGED crashed
       \/ /\ t_output = NULL
          /\ crashed' = TRUE
          /\ UNCHANGED <<outObj, outDestroys, wpc>>
    /\ UNCHANGED <<sess, sid, doVars, setLog, apc, taskRet, failKind, taskVars, poolVars,
                   inVars, outStarted, outBytes, mplxVars, pipeVars, cntVars,
                   badVars>>

\* the value h2_task_destroy leaves in task->output
DestroyedOutput == NULL

\* task->output = NULL
DestroyOutNull ==
    /\ ~crashed /\ wpc = "d_out_null"
    /\ t_output' = DestroyedOutput
    /\ wpc' = "d_mplx"
    /\ UNCHANGED <<sess, sid, doVars, setLog, apc, crashed, taskRet, failKind,
                   t_session_id, t_stream_id, t_aborted, t_running, t_mplx,
                   t_pool, t_c, t_socket, t_input, poolVars,
                   inVars, outVars, mplxVars, pipeVars, cntVars, badVars>>

\* variant: h2_task_destroy releases the multiplexer and keeps the handle
DestroyedMplx_kept == "mplx"

\* the value h2_task_destroy leaves in task->mplx
DestroyedMplx == NULL

\* if (task->mplx) { h2_mplx_release(task->mplx); task->mplx = NULL; }
DestroyMplx ==
    /\ ~crashed /\ wpc = "d_mplx"
    /\ IF t_mplx # NULL
       THEN /\ refCount' = refCount - 1 /\ relCalls' = relCalls + 1
            /\ t_mplx' = DestroyedMplx
       ELSE UNCHANGED <<refCount, relCalls, t_mplx>>
    /\ wpc' = "d_pool"
    /\ UNCHANGED <<sess, sid, doVars, setLog, apc, crashed, taskRet, failKind,
                   t_session_id, t_stream_id, t_aborted, t_running,
                   t_pool, t_c, t_socket, t_input, t_output, poolVars,
                   inVars, outVars, refCalls, resets, pipeVars, cntVars, badVars>>

\* if (task->pool) apr_pool_destroy(task->pool); return APR_SUCCESS;
\* task->pool is left as it was
DestroyPool ==
    /\ ~crashed /\ wpc = "d_pool"
    /\ IF t_pool # NULL
       THEN poolState' = "destroyed" /\ poolDestroys' = poolDestroys + 1
       ELSE UNCHANGED poolVars
    /\ destroyReturns' = destroyReturns + 1
    /\ wpc' = "destroyed"
    /\ UNCHANGED <<sess, sid, doVars, setLog, apc, crashed, taskRet, failKind, taskVars,
                   inVars, outVars, mplxVars, pipeVars, abortCalls,
                   abortReturns, destroyCalls, badVars>>

\* ------------------------------------------------------------------------
\* h2_task_abort (any other thread, any time before the task is destroyed)
\* ------------------------------------------------------------------------

\* a step of h2_task_abort touches the task: after apr_pool_destroy that is
\* an access to freed memory
Freed(u) == u \/ poolState = "destroyed"

\* variant: h2_task_abort tears the bridges down without setting the flag
AbortedFlag_unset(old) == old

\* the value h2_task_abort stores in task->aborted
AbortedFlag(old) == 1

\* variant: h2_task_abort also reports the stream as reset
AbortStart_resets ==
    /\ ~crashed /\ apc = "idle" /\ taskRet
    /\ destroyReturns = 0 /\ abortCalls < MaxAborts
    /\ abortCalls' = abortCalls + 1
    /\ t_aborted' = AbortedFlag(t_aborted)
    /\ resets' = OutReset(resets, t_stream_id, "APR_ECONNABORTED")
    /\ apc' = "a_in_check"
    /\ UNCHANGED <<sess, sid, doVars, setLog, wpc, crashed, taskRet, failKind,
                   t_session_id, t_stream_id, t_running, t_mplx,
                   t_pool, t_c, t_socket, t_input, t_output, poolVars,
                   inVars, outVars, refCount, refCalls, relCalls, pipeVars,
                   abortReturns, destroyCalls, destroyReturns, badVars>>

\* task->aborted = 1
AbortStart ==
    /\ ~crashed /\ apc = "idle" /\ taskRet
    /\ destroyReturns = 0 /\ abortCalls < MaxAborts
    /\ abortCalls' = abortCalls + 1
    /\ t_aborted' = AbortedFlag(t_aborted)
    /\ apc' = "a_in_check"
    /\ UNCHANGED <<sess, sid, doVars, setLog, wpc, crashed, taskRet, failKind,
                   t_session_id, t_stream_id, t_running, t_mplx,
                   t_pool, t_c, t_socket, t_input, t_output, poolVars,
                   inVars, outVars, mplxVars, pipeVars, abortReturns,
                   destroyCalls, destroyReturns, badVars>>

\* if (task->input)
AbortInCheck ==
    /\ ~crashed /\ apc = "a_in_check"
    /\ apc' = IF t_input # NULL THEN "a_in_destroy" ELSE "a_out_check"
    /\ uaf' = Freed(uaf)
    /\ UNCHANGED <<sess, sid, doVars, setLog, wpc, crashed, taskRet, failKind, taskVars, poolVars,
                   inVars, outVars, mplxVars, pipeVars, cntVars,
                   usedDead, hsDead, nullTaskRead, abortWhileBlocked, wokeRes>>

\* h2_task_input_destroy(task->input), see DestroyInDestroy
AbortInDestroy ==
    /\ ~crashed /\ apc = "a_in_destroy"
    /\ uaf' = Freed(uaf)
    /\ \/ /\ inObj' = "destroyed" /\ inDestroys' = inDestroys + 1
          /\ abortWhileBlocked' = (abortWhileBlocked \/ wpc = "in_blocked")
          /\ apc' = "a_in_null"
          /\ UNCHANGED crashed
       \/ /\ t_input = NULL
          /\ crashed' = TRUE
          /\ UNCHANGED <<inVars, apc, abortWhileBlocked>>
    /\ UNCHANGED <<sess, sid, doVars, setLog, wpc, taskRet, failKind, taskVars, poolVars,
                   outVars, mplxVars, pipeVars, cntVars,
                   usedDead, hsDead, nullTaskRead, wokeRes>>

\* variant: h2_task_abort destroys the input bridge and keeps the handle
AbortedInput_kept == "in"

\* the value h2_task_abort leaves in task->input
AbortedInput == NULL

\* task->input = NULL
AbortInNull ==
    /\ ~crashed /\ apc = "a_in_null"
    /\ uaf' = Freed(uaf)
    /\ t_input' = AbortedInput
    /\ apc' = "a_out_check"
    /\ UNCHANGED <<sess, sid, doVars, setLog, wpc, crashed, taskRet, failKind,
                   t_session_id, t_stream_id, t_aborted, t_running, t_mplx,
                   t_pool, t_c, t_socket, t_output, poolVars,
                   inVars, outVars, mplxVars, pipeVars, cntVars,
                   usedDead, hsDead, nullTaskRead, abortWhileBlocked, wokeRes>>

\* if (task->output); with no output bridge h2_task_abort returns
AbortOutCheck ==
    /\ ~crashed /\ apc = "a_out_check"
    /\ uaf' = Freed(uaf)
    /\ IF t_output # NULL
       THEN apc' = "a_out_destroy" /\ UNCHANGED abortReturns
       ELSE apc' = "idle" /\ abortReturns' = abortReturns + 1
    /\ UNCHANGED <<sess, sid, doVars, setLog, wpc, crashed, taskRet, failKind, taskVars, poolVars,
                   inVars, outVars, mplxVars, pipeVars, abortCalls,
                   destroyCalls, destroyReturns,
                   usedDead, hsDead, nullTaskRead, abortWhileBlocked, wokeRes>>

\* h2_task_output_destroy(task->output)
AbortOutDestroy ==
    /\ ~crashed /\ apc = "a_out_destroy"
    /\ uaf' = Freed(uaf)
    /\ \/ /\ outObj' = "destroyed" /\ outDestroys' = outDestroys + 1
          /\ apc' = "a_out_null"
          /\ UNCHANGED crashed
       \/ /\ t_output = NULL
          /\ crashed' = TRUE
          /\ UNCHANGED <<outObj, outDestroys, apc>>
    /\ UNCHANGED <<sess, sid, doVars, setLog, wpc, taskRet, failKind, taskVars, poolVars,
                   inVars, outStarted, outBytes, mplxVars, pipeVars, cntVars,
                   usedDead, hsDead, nullTaskRead, abortWhileBlocked, wokeRes>>

\* the value h2_task_abort leaves in task->output
AbortedOutput == NULL

\* task->output = NULL; h2_task_abort returns
AbortOutNull ==
    /\ ~crashed /\ apc = "a_out_null"
    /\ uaf' = Freed(uaf)
    /\ t_output' = AbortedOutput
    /\ apc' = "idle" /\ abortReturns' = abortReturns + 1
    /\ UNCHANGED <<sess, sid, doVars, setLog, wpc, crashed, taskRet, failKind,
                   t_session_id, t_stream_id, t_aborted, t_running, t_mplx,
                   t_pool, t_c, t_socket, t_input, poolVars,
                   inVars, outVars, mplxVars, pipeVars, abortCalls,
                   destroyCalls, destroyReturns,
                   usedDead, hsDead, nullTaskRead, abortWhileBlocked, wokeRes>>

\* a step of h2_task_abort on the freed task kills the process
AbortFreedCrash ==
    /\ ~crashed /\ apc # "idle" /\ poolState = "destroyed"
    /\ crashed' = TRUE /\ uaf' = TRUE
    /\ UNCHANGED <<sess, sid, doVars, setLog, wpc, apc, taskRet, failKind, taskVars, poolVars,
                   inVars, outVars, mplxVars, pipeVars, cntVars,
                   usedDead, hsDead, nullTaskRead, abortWhileBlocked, wokeRes>>

\* ------------------------------------------------------------------------
\* h2_task_set_running: apr_atomic_set32(&task->running, running)
\* ------------------------------------------------------------------------
\* variant: the flag counts the set calls instead of storing the argument
RunningStore_count(old, v) == IF v = 0 THEN 0 ELSE old + 1

\* variant: once set the flag is never cleared
RunningStore_sticky(old, v) == IF old # 0 THEN old ELSE v

\* apr_atomic_set32 stores the argument
RunningStore(old, v) == v

\* h2_task_is_running: apr_atomic_read32(&task->running)
IsRunning == t_running

\* the last two of the arguments logged so far, with v added
LogSet(log, v) == IF Len(log) < 2 THEN Append(log, v) ELSE <<log[2], v>>

SetRunning ==
    /\ ~crashed /\ taskRet /\ poolState = "live"
    /\ \E v \in {0, 1} :
          /\ t_running' = RunningStore(t_running, v)
          /\ setLog' = LogSet(setLog, v)
    /\ UNCHANGED <<sess, sid, doVars, wpc, apc, crashed, taskRet, failKind,
                   t_session_id, t_stream_id, t_aborted, t_mplx,
                   t_pool, t_c, t_socket, t_input, t_output, poolVars,
                   inVars, outVars, mplxVars, pipeVars, cntVars, badVars>>

\* ------------------------------------------------------------------------
\* Properties
\* ------------------------------------------------------------------------

\* the pipeline ran to its end and output had started
CompletedWithOutput == pipeReturned /\ outBytes > 0
\* h2_mplx_out_reset was called for the stream given to h2_task_create
ResetCalled == \E i \in 1..Len(resets) : resets[i][1] = sid

\* C1: once h2_task_destroy has returned for a task, exactly one of
\* "pipeline completed with output started" and "the stream was reset" has
\* happened: not both, not neither.
C1_ExactlyOneOutcome ==
    (taskRet /\ destroyReturns >= 1) => (CompletedWithOutput # ResetCalled)

\* C2: a bridge call that begins after h2_task_abort has returned is either
\* still at its NULL check or has returned APR_ECONNABORTED; it never gets
\* past the check into the bridge (where it could block or use the
\* destroyed object).
C2_AbortThenBridgeFails ==
    callAfterAbort =>
        \/ wpc \in {"in_check", "out_check"} /\ res = "pending"
        \/ res = "APR_ECONNABORTED" /\ wpc \notin {"in_call", "in_blocked", "out_call"}

C2_Witness ==
    callAfterAbort /\ wpc = "pipeline" /\ res = "APR_ECONNABORTED" /\ calls = MaxCalls

\* C3: with h2_task_abort running concurrently, no bridge call of the
\* worker proceeds into a bridge that is NULL or already destroyed.
C3_BridgeSeesTeardown == ~usedDead

\* C4: when abort tears the input bridge down under a blocked read, then by
\* the time the following h2_task_destroy has returned the read returned
\* APR_ECONNABORTED and nothing on the way accessed a NULL or destroyed
\* bridge.
C4_AbortUnblocksRead ==
    (abortWhileBlocked /\ destroyReturns >= 1) =>
        /\ wokeRes = "APR_ECONNABORTED"
        /\ ~hsDead /\ ~usedDead

\* C5: after two h2_task_destroy calls the state is that of one call: the
\* multiplexer released once, each bridge destroyed once, the pool
\* destroyed once.
C5_DestroyIdempotent ==
    destroyReturns >= 2 =>
        /\ relCalls = 1 /\ poolDestroys = 1
        /\ inDestroys = 1 /\ outDestroys = 1
        /\ ~uaf

\* C6: under every interleaving of h2_task_abort with the worker's
\* completion and h2_task_destroy each bridge is destroyed at most once.
C6_BridgeDestroyedOnce == inDestroys <= 1 /\ outDestroys <= 1

\* C7: a returned task has referenced the multiplexer exactly once, releases
\* it at most once and not before h2_task_destroy, and once h2_task_destroy
\* has returned the reference count is what it was before h2_task_create,
\* with or without h2_task_do and h2_task_abort.
C7_MplxRefBalanced ==
    taskRet =>
        /\ refCalls = 1 /\ relCalls <= 1
        /\ refCount = RefBase + refCalls - relCalls
        /\ (destroyCalls = 0 => relCalls = 0)
        /\ (destroyReturns >= 1 => relCalls = 1 /\ refCount = RefBase)

C7_Witness ==
    /\ taskRet /\ destroyReturns = MaxDestroys /\ abortReturns >= 1
    /\ pipeReturned /\ refCount = RefBase

\* C8: when h2_conn_create fails, h2_task_create returns no task, the
\* multiplexer has exactly one reset, for the given stream id with the
\* status of h2_conn_create, and no bridge exists or is installed.
C8_ConnFailResets ==
    failKind = "conn" =>
        /\ wpc = "nocreate" /\ ~taskRet
        /\ resets = << <<sid, "APR_EGENERAL">> >>
        /\ inObj = "none" /\ outObj = "none"
        /\ t_input = NULL /\ t_output = NULL

C8_Witness == failKind = "conn" /\ wpc = "nocreate" /\ Len(resets) = 1 /\ sid = 4

\* C9: when pool creation or task allocation fails, no task is returned,
\* no field of the unallocated task is read, and the multiplexer gets
\* exactly one reset, for the stream id passed in (APR_ENOMEM for the
\* allocation).
C9_AllocFailResets ==
    failKind \in {"pool", "alloc"} =>
        /\ ~taskRet /\ ~nullTaskRead /\ ~crashed
        /\ wpc = "nocreate"
        /\ Len(resets) = 1 /\ resets[1][1] = sid
        /\ (failKind = "alloc" => resets[1][2] = "APR_ENOMEM")

\* C10: when ap_process_connection has returned and h2_task_do with it:
\* output written means no reset; no output written means exactly one
\* reset, for the task's stream id.
C10_SilentOrStarted ==
    (pipeReturned /\ doRet = "APR_SUCCESS") =>
        IF outBytes > 0
        THEN resets = <<>>
        ELSE Len(resets) = 1 /\ resets[1][1] = sid

\* C11: when apr_socket_create fails, h2_task_do returns that status, the
\* multiplexer has exactly that one reset, for the task's stream id with
\* that status, and ap_process_connection is not invoked, then or later.
C11_SocketFailResets ==
    doRet \in FailStatus =>
        /\ resets = << <<t_stream_id, doRet>> >> /\ t_stream_id = sid
        /\ procCalls = 0 /\ ~pipeReturned /\ calls = 0
        /\ wpc \notin {"pipeline", "in_check", "in_call", "in_blocked",
                       "out_check", "out_call", "has_started"}

C11_Witness ==
    doRet = "APR_EGENERAL" /\ destroyReturns >= 1 /\ procCalls = 0 /\ abortReturns >= 1

C13_NoTornDownBridgeUse == ~hsDead

\* C14 as claimed: by the time the task is destroyed ap_process_connection
\* has been invoked exactly once, whatever calls were made.
C14_ExactlyOnce == (taskRet /\ destroyReturns >= 1) => procCalls = 1

\* C14 as amended: ap_process_connection is invoked once by an h2_task_do
\* call whose socket creation succeeds and never otherwise: not before
\* h2_task_do, not when socket creation fails, never a second time.
C14_OncePerSuccessfulDo ==
    /\ procCalls <= 1
    /\ (wpc \in {"start", "nocreate", "created"} => procCalls = 0)
    /\ (doRet \in FailStatus => procCalls = 0)
    /\ (do_status = "APR_SUCCESS" => procCalls = 1)
    /\ (procCalls = 1 => do_status = "APR_SUCCESS" /\ taskRet)

C14_Witness == procCalls = 1 /\ destroyReturns = MaxDestroys /\ doRet = "APR_SUCCESS"

\* the flag has been running and is not running now
Finished == 1 \in {setLog[i] : i \in 1..Len(setLog)} /\ IsRunning = 0

\* C15 as claimed: the flag moves only not-started -> running -> finished;
\* once finished it does not run again.
C15_RunningMonotonic == [][Finished => IsRunning' = 0]_vars

\* C15 as amended: the flag is 0 until the first h2_task_set_running call
\* and from then on holds the argument of the latest call, in whatever
\* order the calls come; no other operation changes it.
C15_RunningIsLastSet ==
    IsRunning = IF setLog = <<>> THEN 0 ELSE setLog[Len(setLog)]

C15_Witness == setLog = <<0, 1>> /\ IsRunning = 1 /\ abortReturns >= 1

\* C16: after h2_task_set_running(task, 1) followed by
\* h2_task_set_running(task, 0), h2_task_is_running returns 0.
C16_SetThenClear ==
    (Len(setLog) = 2 /\ setLog[1] = 1 /\ setLog[2] = 0) => IsRunning = 0

C16_Witness == setLog = <<1, 0>> /\ IsRunning = 0 /\ pipeReturned

\* C17: task->aborted is 0 until the first h2_task_abort, 1 from its first
\* statement on (before either bridge is torn down), and never 0 again.
C17_AbortedMonotonic ==
    /\ t_aborted = IF abortCalls > 0 THEN 1 ELSE 0
    /\ (apc # "idle" => t_aborted = 1)

C17_Witness ==
    t_aborted = 1 /\ abortReturns = MaxAborts /\ destroyReturns >= 1 /\ pipeReturned

\* C18: a step of h2_task_abort leaves session id, stream id, the running
\* flag, the multiplexer handle and its reference count, the pool, the
\* connection and the socket as they were and makes no reset call.
C18_AbortFrame ==
    [][(apc' # apc) =>
          /\ t_session_id' = t_session_id /\ t_stream_id' = t_stream_id
          /\ t_running' = t_running /\ t_mplx' = t_mplx
          /\ refCount' = refCount /\ refCalls' = refCalls /\ relCalls' = relCalls
          /\ t_pool' = t_pool /\ poolState' = poolState
          /\ t_c' = t_c /\ t_socket' = t_socket
          /\ resets' = resets]_vars

C18_Witness ==
    /\ abortReturns >= 1 /\ destroyCalls = 0 /\ t_input = NULL /\ t_output = NULL
    /\ t_mplx = "mplx" /\ refCount = RefBase + 1 /\ poolState = "live"
    /\ t_c = "conn" /\ resets = <<>>

\* C19: when h2_task_create returns no task the multiplexer's reference
\* count is what it was before the call.
C19_FailedCreateHoldsNoRef == wpc = "nocreate" => refCount = RefBase

\* C20: a reset made by h2_task_do after the pipeline returned carries
\* APR_SUCCESS, the status left from apr_socket_create.
C20_SilentResetStatus ==
    pipeReturned => \A i \in 1..Len(resets) : resets[i] = <<sid, "APR_SUCCESS">>

C20_Witness ==
    pipeReturned /\ Len(resets) = 1 /\ ~hsDead /\ outBytes = 0 /\ wpc = "do_done"

Next == CreatePoolFail \/ CreateAllocFail \/ CreateConnFail \/ CreateOk
     \/ DoSocketFail \/ DoSocketOk \/ PipeInput \/ PipeOutput
     \/ InCheck \/ InCall \/ InWake \/ OutCheck \/ OutCall
     \/ PipeReturn \/ DoHasStarted
     \/ DestroyStart \/ DestroyInCheck \/ DestroyInDestroy \/ DestroyInNull
     \/ DestroyOutCheck \/ DestroyOutDestroy \/ DestroyOutNull
     \/ DestroyMplx \/ DestroyPool
     \/ AbortStart \/ AbortInCheck \/ AbortInDestroy \/ AbortInNull
     \/ AbortOutCheck \/ AbortOutDestroy \/ AbortOutNull \/ AbortFreedCrash
     \/ SetRunning
Spec == Init /\ [][Next]_vars
====
